---- MODULE Spec2Model ----
(***************************************************************************)
(* Goridge RPC transport core: the frame container, the relay's receive    *)
(* operation (ReceiveFrame) and the net/rpc server codec (Codec) with its  *)
(* per-request codec table.  Bytes are integers 0..255 and byte strings    *)
(* are sequences of them; 32-bit words are kept as byte quadruples or as   *)
(* pairs of 16-bit halves where their arithmetic is needed.                *)
(***************************************************************************)
EXTENDS Integers, Sequences, FiniteSets, TLC

(* ------------------------------ bounds --------------------------------- *)

\* frame objects the frame pool's New function may allocate
MaxFrames == 2
\* sequence ids the peer and the dispatcher use are 1..MaxSeq
MaxSeq == 2
\* unread bytes that may remain on the stream when the peer writes again
MaxBacklog == 0
\* concurrent WriteResponse calls
MaxWriters == 2
\* Close calls
MaxCloses == 3

(* --------------------------- byte arithmetic --------------------------- *)

RECURSIVE XorBits(_, _)
XorBits(a, b) ==
    IF a = 0 THEN b
    ELSE IF b = 0 THEN a
    ELSE (((a % 2) + (b % 2)) % 2) + 2 * XorBits(a \div 2, b \div 2)

XorTable == [a \in 0..255 |-> [b \in 0..255 |-> XorBits(a, b)]]

\* exclusive or of two bytes
Xor(a, b) == XorTable[a][b]

Min(a, b) == IF a < b THEN a ELSE b

Take(s, n) == SubSeq(s, 1, Min(n, Len(s)))

Drop(s, n) == SubSeq(s, Min(n, Len(s)) + 1, Len(s))

\* little-endian bytes of an unsigned 32-bit word
PutU32(n) == << n % 256, (n \div 256) % 256, (n \div 65536) % 256, (n \div 16777216) % 256 >>

\* unsigned 32-bit word of four little-endian bytes
U32(b) == b[1] + (256 * b[2]) + (65536 * b[3]) + (16777216 * b[4])

RECURSIVE PutWords(_)
PutWords(ws) == IF ws = << >> THEN << >> ELSE PutU32(Head(ws)) \o PutWords(Tail(ws))

(* ------------------------------- CRC-32 -------------------------------- *)
(* IEEE CRC-32: reversed polynomial 0xEDB88320, initial value 0xFFFFFFFF,  *)
(* final XOR 0xFFFFFFFF.  The table is computed on <<high half, low half>> *)
(* pairs; a running CRC is its four little-endian bytes.                   *)

CRCPolyHi == 60856

CRCPolyLo == 33568

Shr1(c) == << c[1] \div 2, (c[2] \div 2) + ((c[1] % 2) * 32768) >>

CRCBit(c) ==
    IF c[2] % 2 = 1
    THEN << XorBits(Shr1(c)[1], CRCPolyHi), XorBits(Shr1(c)[2], CRCPolyLo) >>
    ELSE Shr1(c)

RECURSIVE CRCBits(_, _)
CRCBits(c, n) == IF n = 0 THEN c ELSE CRCBits(CRCBit(c), n - 1)

Bytes32(c) == << c[2] % 256, c[2] \div 256, c[1] % 256, c[1] \div 256 >>

CRCTable == [i \in 0..255 |-> Bytes32(CRCBits(<< 0, i >>, 8))]

\* crc = table[(crc ^ b) & 0xff] ^ (crc >> 8)
CRCByte(c, b) ==
    LET t == CRCTable[Xor(c[1], b)]
    IN  << Xor(t[1], c[2]), Xor(t[2], c[3]), Xor(t[3], c[4]), t[4] >>

RECURSIVE CRCUpdate(_, _)
CRCUpdate(c, bytes) ==
    IF bytes = << >> THEN c ELSE CRCUpdate(CRCByte(c, Head(bytes)), Tail(bytes))

\* the four little-endian bytes of the CRC-32 of a byte string
CRC32(bytes) ==
    LET c == CRCUpdate(<< 255, 255, 255, 255 >>, bytes)
    IN  << Xor(c[1], 255), Xor(c[2], 255), Xor(c[3], 255), Xor(c[4], 255) >>

(* ------------------------------- Frame --------------------------------- *)
(* A frame is [header, payload]: the header holds the 12 fixed bytes and   *)
(* then the option words; byte 0 is HL (high nibble) and version (low      *)
(* nibble), byte 1 the flags, bytes 4..7 the payload length, bytes 8..11   *)
(* the CRC-32 of bytes 0..7.                                               *)

CodecRaw == 1

CodecJSON == 2

CodecMsgpack == 4

CodecGob == 8

CodecProto == 16

ERROR == 32

Version1 == 1

\* bytes in a 32-bit word
WORD == 4

\* flag & bit != 0, for a one-bit mask
HasBit(flag, bit) == (flag \div bit) % 2 = 1

CodecBits == {CodecRaw, CodecJSON, CodecMsgpack, CodecGob, CodecProto}

NewFrame == [header |-> << 49, 0, 0, 0, 0, 0, 0, 0, 0, 0, 0, 0 >>, payload |-> << >>]

Reset(f) == NewFrame

ReadHL(header) == header[1] \div 16

WriteVersion(header, v) == [header EXCEPT ![1] = ((header[1] \div 16) * 16) + v]

WriteFlags(header, flags) == [header EXCEPT ![2] = flags]

ReadFlags(f) == f.header[2]

\* appends the words and grows HL by their number
WriteOptions(header, words) ==
    [header EXCEPT ![1] = (((ReadHL(header) + Len(words)) % 16) * 16) + (header[1] % 16)]
        \o PutWords(words)

\* appends option bytes read from the stream; HL is already in byte 0
AppendOptions(header, opts) == header \o opts

ReadOptions(header) ==
    IF ReadHL(header) <= 3 THEN << >>
    ELSE [i \in 1..(ReadHL(header) - 3) |->
             U32(SubSeq(header, 12 + (WORD * (i - 1)) + 1, 12 + (WORD * i)))]

WritePayloadLen(header, n) ==
    SubSeq(header, 1, 4) \o PutU32(n) \o SubSeq(header, 9, Len(header))

ReadPayloadLen(header) == U32(SubSeq(header, 5, 8))

WriteCRC(header) ==
    SubSeq(header, 1, 8) \o CRC32(SubSeq(header, 1, 8)) \o SubSeq(header, 13, Len(header))

VerifyCRC(header) == SubSeq(header, 9, 12) = CRC32(SubSeq(header, 1, 8))

(* ------------------------- payload codecs ------------------------------ *)
(* The third-party encoders, by shape: a response body is [type, val],     *)
(*   "bytes" ([]byte) and "bytesptr" ( *[]byte ): val is the byte string,  *)
(*   "proto" (a proto.Message), "badproto" (a proto.Message that does not  *)
(*   marshal), "value" (a plain value every codec marshals) and "chan"     *)
(*   (a value json, msgpack and gob all reject): val is one byte.          *)

BodyTypes == {"bytes", "bytesptr", "proto", "badproto", "value", "chan"}

IsProtoMessage(body) == body.type \in {"proto", "badproto"}

BodyByte(body) == IF body.type \in {"bytes", "bytesptr"} THEN body.val[1] ELSE body.val

\* proto.Marshal
ProtoMarshal(body) ==
    IF body.type = "badproto" THEN [err |-> TRUE, data |-> << >>]
    ELSE [err |-> FALSE, data |-> << 10, 1, body.val >>]

\* json.Marshal
JSONMarshal(body) ==
    IF body.type = "chan" THEN [err |-> TRUE, data |-> << >>]
    ELSE [err |-> FALSE, data |-> << 34, BodyByte(body), 34 >>]

\* msgpack.Marshal
MsgpackMarshal(body) ==
    IF body.type = "chan" THEN [err |-> TRUE, data |-> << >>]
    ELSE [err |-> FALSE, data |-> << 161, BodyByte(body) >>]

\* gob.NewEncoder(buf).Encode
GobEncode(body) ==
    IF body.type = "chan" THEN [err |-> TRUE, data |-> << >>]
    ELSE [err |-> FALSE, data |-> << 3, 12, BodyByte(body) >>]

\* the decoders: out is the kind of the destination, "nil" when absent
OutTypes == {"nil", "bytesptr", "proto", "value"}

ProtoUnmarshal(payload) ==
    IF Len(payload) = 3 /\ payload[1] = 10 /\ payload[2] = 1
    THEN [err |-> FALSE, val |-> payload[3]] ELSE [err |-> TRUE, val |-> 0]

JSONUnmarshal(payload, out) ==
    IF Len(payload) = 3 /\ payload[1] = 34 /\ payload[3] = 34 /\ out = "value"
    THEN [err |-> FALSE, val |-> payload[2]] ELSE [err |-> TRUE, val |-> 0]

MsgpackUnmarshal(payload, out) ==
    IF Len(payload) = 2 /\ payload[1] = 161 /\ out = "value"
    THEN [err |-> FALSE, val |-> payload[2]] ELSE [err |-> TRUE, val |-> 0]

GobDecode(payload, out) ==
    IF Len(payload) = 3 /\ payload[1] = 3 /\ payload[2] = 12 /\ out = "value"
    THEN [err |-> FALSE, val |-> payload[3]] ELSE [err |-> TRUE, val |-> 0]

(* ----------------------------- the relay ------------------------------- *)
(* The stream is the byte string still unread; a read past its end finds   *)
(* the end of the stream.  Errors are named by kind:                       *)
(*   "nil", "EOF" (io.EOF), "ErrUnexpectedEOF" (io.ErrUnexpectedEOF),      *)
(*   "E:ErrUnexpectedEOF" (errors.E(op, err) around it), "FileNotFound",   *)
(*   "Validation".                                                         *)

\* "Could not op"
res == << 67, 111, 117, 108, 100, 32, 110, 111, 116, 32, 111, 112 >>

\* "file not found"
FileNotFoundStr == << 102, 105, 108, 101, 32, 110, 111, 116, 32, 102, 111, 117, 110, 100 >>

\* io.ReadFull(relay, buf) with len(buf) = n
ReadFull(relay, n) ==
    [data |-> Take(relay, n),
     rest |-> Drop(relay, n),
     err  |-> IF Len(relay) >= n THEN "nil"
              ELSE IF Len(relay) = 0 THEN "EOF" ELSE "ErrUnexpectedEOF"]

\* io.ReadAll(relay): what there is to read, and whether the read ended in an error
ReadAll(relay, fails) == [data |-> relay, err |-> fails]

\* what can go wrong with the stream besides its end: nothing ("ok"), SetReadDeadline
\* fails ("dlErr"), io.ReadAll ends in an error ("raErr")
IOOutcomes == {"ok", "dlErr", "raErr"}

\* the outcome of ReceiveFrame: the frame as left, the unread stream, the error,
\* its message, whether a read waited for the end of the stream, and how far the
\* operation came
Received(fr, rest, err, msg, hitEnd, stage) ==
    [fr |-> fr, rest |-> rest, err |-> err, msg |-> msg, hitEnd |-> hitEnd, stage |-> stage]

\* line 84..96: the payload
ReceivePayload(relay, fr, err) ==
    LET pl == ReadPayloadLen(fr.header)
        p  == ReadFull(relay, pl)
    IN  IF pl = 0 THEN Received(fr, relay, "nil", << >>, FALSE, "nopayload")
        ELSE IF p.err # "nil"
        THEN IF p.err = "EOF"
             THEN Received(fr, p.rest, err, << >>, TRUE, "payload")
             ELSE Received(fr, p.rest, "E:" \o p.err, << >>, TRUE, "payload")
        ELSE Received([fr EXCEPT !.payload = p.data], p.rest, "nil", << >>, FALSE, "done")

\* ReceiveFrame without the CRC check
ReceiveVerifySkipped(relay, fr, err, dl, io) == ReceivePayload(relay, fr, err)

\* line 54..74: the header CRC
ReceiveVerify(relay, fr, err, dl, io) ==
    IF ~VerifyCRC(fr.header)
    THEN IF dl
         THEN IF io = "dlErr"
              THEN Received(fr, relay, "Validation", fr.header, FALSE, "crc")
              ELSE LET resp == ReadAll(relay, io = "raErr")
                   IN  Received(fr, << >>, "Validation", fr.header \o resp.data, FALSE, "crc")
         ELSE Received(fr, relay, "Validation", fr.header, FALSE, "crc")
    ELSE ReceivePayload(relay, fr, err)

\* line 35..52: the options
ReceiveOptions(relay, fr, err, dl, io) ==
    IF ReadHL(fr.header) > 3
    THEN LET optsLen == (ReadHL(fr.header) - 3) * WORD
             o       == ReadFull(relay, optsLen)
         IN  IF o.err # "nil"
             THEN IF o.err = "EOF"
                  THEN Received(fr, o.rest, o.err, << >>, TRUE, "options")
                  ELSE Received(fr, o.rest, "E:" \o o.err, << >>, TRUE, "options")
             ELSE ReceiveVerify(o.rest, [fr EXCEPT !.header = AppendOptions(fr.header, o.data)],
                                o.err, dl, io)
    ELSE ReceiveVerify(relay, fr, err, dl, io)

\* ReceiveFrame without the comparison of the header with res
ReceiveFrameNoSentinel(relay, fr, dl, io) ==
    LET h  == ReadFull(relay, 12)
        f1 == [fr EXCEPT !.header = h.data \o SubSeq(fr.header, Len(h.data) + 1, 12)]
    IN  IF h.err # "nil"
        THEN Received(f1, h.rest, h.err, << >>, TRUE, "header")
        ELSE ReceiveOptions(h.rest, f1, h.err, dl, io)

\* line 18..33: the fixed header, and the foreign-output sentinel
ReceiveFrame(relay, fr, dl, io) ==
    LET h   == ReadFull(relay, 12)
        hdr == h.data \o SubSeq(fr.header, Len(h.data) + 1, 12)
        f1  == [fr EXCEPT !.header = hdr]
    IN  IF h.err # "nil"
        THEN Received(f1, h.rest, h.err, << >>, TRUE, "header")
        ELSE IF f1.header = res
        THEN LET ra == ReadAll(h.rest, io = "raErr")
             IN  IF ~ra.err /\ Len(ra.data) > 0
                 THEN Received(f1, << >>, "FileNotFound", f1.header \o ra.data, TRUE, "sentinel")
                 ELSE Received(f1, << >>, "FileNotFound", FileNotFoundStr, ~ra.err, "sentinel")
        ELSE ReceiveOptions(h.rest, f1, h.err, dl, io)

(* ------------------------- what the peer writes ------------------------ *)

Seqs == 1..MaxSeq

\* flag bytes of request frames: no codec bit, each codec alone, RAW|GOB
ReqFlags == {0, CodecRaw, CodecJSON, CodecMsgpack, CodecGob, CodecProto, CodecRaw + CodecGob}

\* "A"
PeerMethod == << 65 >>

\* the request body a peer encodes for a flag byte (gob when it sets no codec bit)
PeerBody(flags) ==
    IF HasBit(flags, CodecProto) THEN << 10, 1, 7 >>
    ELSE IF HasBit(flags, CodecJSON) THEN << 34, 7, 34 >>
    ELSE IF HasBit(flags, CodecMsgpack) THEN << 161, 7 >>
    ELSE IF HasBit(flags, CodecGob) THEN << 3, 12, 7 >>
    ELSE IF HasBit(flags, CodecRaw) THEN << 7 >>
    ELSE << 3, 12, 7 >>

\* the bytes of a frame: hl option words declared, payload length n declared
MkFrame(hl, flags, opts, n, payload) ==
    LET h8 == << (hl * 16) + Version1, flags, 0, 0 >> \o PutU32(n)
    IN  h8 \o CRC32(h8) \o opts \o payload

Request(flags, seq, method, body) ==
    MkFrame(5, flags, PutWords(<< seq, Len(method) >>), Len(method) + Len(body), method \o body)

\* one bit of byte i flipped
Corrupt(bytes, i) == [bytes EXCEPT ![i] = Xor(@, 1)]

\* the flag bytes the peer uses with a sequence id
SeqFlags(q) == IF q = 1 THEN ReqFlags ELSE {CodecProto}

GoodItems ==
    UNION { { Request(f, q, PeerMethod, PeerBody(f)) : f \in SeqFlags(q) } : q \in Seqs }
    \cup { Request(CodecJSON, 1, PeerMethod, << >>),
           Request(CodecRaw, 1, PeerMethod, res) }

BadItems ==
    { MkFrame(3, CodecJSON, << >>, 4, PeerMethod \o PeerBody(CodecJSON)),
      MkFrame(4, CodecJSON, PutWords(<< 1 >>), 4, PeerMethod \o PeerBody(CodecJSON)),
      MkFrame(6, CodecRaw, res, 2, PeerMethod \o PeerBody(CodecRaw)),
      Corrupt(MkFrame(5, CodecJSON, PutWords(<< 1, 0 >>), 0, << >>), 5),
      Corrupt(MkFrame(5, CodecRaw, PutWords(<< 2, 1 >>), 14, res \o << 101, 110 >>), 2),
      res,
      res \o << 101, 110 >>,
      Take(Request(CodecJSON, 1, PeerMethod, PeerBody(CodecJSON)), 5),
      Take(Request(CodecJSON, 1, PeerMethod, PeerBody(CodecJSON)), 12),
      Take(Request(CodecJSON, 1, PeerMethod, PeerBody(CodecJSON)), 15),
      Take(Request(CodecJSON, 1, << >>, PeerBody(CodecJSON)), 20),
      Take(Request(CodecJSON, 1, PeerMethod, PeerBody(CodecJSON)), 20),
      Take(Request(CodecJSON, 1, PeerMethod, PeerBody(CodecJSON)), 22),
      MkFrame(5, CodecJSON, PutWords(<< 1, 9 >>), 4, PeerMethod \o PeerBody(CodecJSON)),
      MkFrame(5, CodecJSON, PutWords(<< 1, 1 >>), 0, << >>) }

Items == GoodItems \cup BadItems

(* --------------------- what the dispatcher passes ---------------------- *)

\* rpc.Response.ServiceMethod: "AB"
Methods == { << 65, 66 >> }

\* rpc.Response.Error: "" or "b"
ErrorStrings == { << >>, << 98 >> }

Bodies ==
    { [type |-> t, val |-> 7] : t \in {"proto", "badproto", "value", "chan"} }
    \cup { [type |-> t, val |-> << 7 >>] : t \in {"bytes", "bytesptr"} }

\* err.Error() of a marshalling error: "m"
MarshalErrStr == << 109 >>

\* "unknown Raw payload type", shortened to "u"
UnknownRawStr == << 117 >>

\* "unknown codec", shortened to "c"
UnknownCodecStr == << 99 >>

(* ------------------------------ the state ------------------------------ *)

VARIABLES
    stream,      \* bytes written by the peer and not yet read by the relay
    peerClosed,  \* the peer closed its end: the stream ends after `stream`
    deadliner,   \* the stream implements SetReadDeadline
    frames,      \* the frame objects, by id
    nAlloc,      \* frames the pool's New function has made: ids 1..nAlloc
    fPool,       \* Codec.fPool: how many times each frame is in the pool
    cframe,      \* Codec.frame: id of the retained frame, 0 for nil
    codec,       \* Codec.codec: the per-request codec table, seq -> codec byte
    pc,          \* the dispatcher's read side: "header", "body" or "crashed"
    ret,         \* the last call: its arguments, what it returned, what it sent
    rcvd,        \* per seq, the flag byte of the request read and not yet answered
                 \* (the peer does not reuse the seq of an unanswered request)
    hasNew,      \* fPool and bPool were built with a New function
    closed,      \* Codec.closed
    closeRets,   \* what the Close calls returned, in order
    relayCloses, \* how many times relay.Close was invoked
    wpc,         \* per concurrent WriteResponse call, where it is
    wfr,         \* per concurrent WriteResponse call, the frame it got, 0 for none
    rdpc,        \* the read pair taken step by step: where it is
    rdfr         \* the frame ReadRequestHeader got and has not yet retained or put back

\* the state of the calls taken step by step
stepVars == << hasNew, closed, closeRets, relayCloses, wpc, wfr, rdpc, rdfr >>

vars == << stream, peerClosed, deadliner, frames, nAlloc, fPool, cframe, codec, pc, ret, rcvd,
           hasNew, closed, closeRets, relayCloses, wpc, wfr, rdpc, rdfr >>

Writers == 1..MaxWriters

FrameIds == 1..MaxFrames

NoRet ==
    [op |-> "none", err |-> "nil", msg |-> << >>, seq |-> 0, method |-> << >>,
     errIn |-> << >>, rin |-> << >>, io |-> "ok", stage |-> "none", rerr |-> "nil",
     rfr |-> NewFrame,
     sends |-> << >>, found |-> 0, reqFlags |-> {}, marshal |-> "none",
     out |-> "nil", val |-> << >>, fid |-> 0, dec |-> 0]

\* NewCodec
Init ==
    /\ stream = << >>
    /\ peerClosed = FALSE
    /\ deadliner \in BOOLEAN
    /\ frames = [i \in FrameIds |-> NewFrame]
    /\ nAlloc = 0
    /\ fPool = [i \in FrameIds |-> 0]
    /\ cframe = 0
    /\ codec = << >>
    /\ pc = "header"
    /\ ret = NoRet
    /\ rcvd = [q \in Seqs |-> {}]
    /\ hasNew = TRUE
    /\ closed = FALSE
    /\ closeRets = << >>
    /\ relayCloses = 0
    /\ wpc = [t \in Writers |-> "idle"]
    /\ wfr = [t \in Writers |-> 0]
    /\ rdpc = "idle"
    /\ rdfr = 0

\* sync.Pool.Get on fPool: a pooled frame when there is one (pooled frames are all
\* reset, so which one is immaterial), else one made by New
GetFrameIds ==
    IF \E i \in FrameIds : fPool[i] > 0
    THEN { CHOOSE i \in FrameIds : fPool[i] > 0 }
    ELSE IF hasNew /\ nAlloc < MaxFrames THEN { nAlloc + 1 } ELSE { }

\* a Get that leaves the frame in the pool
PoolAfterGetKeeps(i) == fPool

\* the pool and the allocation count after getFrame returned frame i
PoolAfterGet(i) == IF fPool[i] > 0 THEN [fPool EXCEPT ![i] = @ - 1] ELSE fPool

AllocAfterGet(i) == IF fPool[i] > 0 THEN nAlloc ELSE nAlloc + 1

\* sync.Map.Store
Store(m, k, v) == [x \in (DOMAIN m) \cup {k} |-> IF x = k THEN v ELSE m[x]]

\* a Load in place of LoadAndDelete: the entry stays
DeleteKeepsEntry(m, k) == m

\* sync.Map.LoadAndDelete: the map left behind
Delete(m, k) == [x \in (DOMAIN m) \ {k} |-> m[x]]

\* storeCodec with every case storing the default codec
storeCodecDefaultOnly(flag) == CodecGob

\* the codec byte storeCodec keeps for a flag byte
storeCodec(flag) ==
    IF HasBit(flag, CodecProto) THEN CodecProto
    ELSE IF HasBit(flag, CodecJSON) THEN CodecJSON
    ELSE IF HasBit(flag, CodecRaw) THEN CodecRaw
    ELSE IF HasBit(flag, CodecMsgpack) THEN CodecMsgpack
    ELSE IF HasBit(flag, CodecGob) THEN CodecGob
    ELSE CodecGob

(* ------------------------------ the codec ------------------------------ *)

\* putFrame: the frame is reset and put into the pool
FramesAfterPut(fs, i) == [fs EXCEPT ![i] = Reset(fs[i])]

PoolAfterPut(pool, i) == [pool EXCEPT ![i] = @ + 1]

\* the peer adds bytes to the stream before a read: none once it closed its end
CanWrite(item) == item = << >> \/ (~peerClosed /\ Len(stream) <= MaxBacklog)

\* a frame that is neither pooled nor retained is garbage: its content is dropped
Collect(fs, pool, keep) ==
    [i \in FrameIds |-> IF pool[i] = 0 /\ i # keep THEN NewFrame ELSE fs[i]]

\* the option check as len(opts) < 2
TwoOptionsAtLeast(opts) == Len(opts) >= 2

\* line 263: len(opts) != 2 is an invalid frame
TwoOptions(opts) == Len(opts) = 2

\* f.Payload()[:n] where it does not panic: past the payload's length it yields
\* the bytes of the spare capacity, which are zero in a new payload buffer
SliceTo(payload, n) ==
    IF n <= Len(payload) THEN SubSeq(payload, 1, n)
    ELSE payload \o [i \in 1..(n - Len(payload)) |-> 0]

\* Codec.ReadRequestHeader; the peer wrote `item` before the read, and closed its
\* end if the read waits for the end of the stream; io: what else goes wrong;
\* spare: the payload buffer has capacity for a method name longer than the payload
ReadRequestHeader(item, io, spare) ==
    /\ pc = "header" /\ ret = NoRet
    /\ CanWrite(item)
    /\ io # "ok" => (deadliner \/ Take(stream \o item, 12) = res)
    /\ \E f \in GetFrameIds :
         LET r    == ReceiveFrame(stream \o item, frames[f], deadliner, io)
             opts == ReadOptions(r.fr.header)
             base == [NoRet EXCEPT !.op = "header", !.fid = f, !.rin = stream \o item,
                                   !.io = io, !.stage = r.stage, !.rerr = r.err,
                                   !.rfr = r.fr]
         IN  /\ spare => (r.err = "nil" /\ TwoOptions(opts) /\ opts[2] > Len(r.fr.payload))
             /\ io = "dlErr" => r.stage = "crc"
             /\ io = "raErr" => r.stage \in {"sentinel", "crc"}
             /\ stream' = r.rest
             /\ peerClosed' = (peerClosed \/ r.hitEnd)
             /\ nAlloc' = AllocAfterGet(f)
             /\ UNCHANGED << deadliner, stepVars >>
             /\ IF r.err # "nil"
                THEN /\ frames' = FramesAfterPut([frames EXCEPT ![f] = r.fr], f)
                     /\ fPool' = PoolAfterPut(PoolAfterGet(f), f)
                     /\ ret' = [base EXCEPT !.err = r.err, !.msg = r.msg]
                     /\ UNCHANGED << cframe, codec, pc, rcvd >>
                ELSE IF ~TwoOptions(opts)
                THEN /\ frames' = FramesAfterPut([frames EXCEPT ![f] = r.fr], f)
                     /\ fPool' = PoolAfterPut(PoolAfterGet(f), f)
                     /\ ret' = [base EXCEPT !.err = "InvalidFrame"]
                     /\ UNCHANGED << cframe, codec, pc, rcvd >>
                ELSE IF opts[2] > Len(r.fr.payload) /\ ~spare
                THEN \* f.Payload()[:opts[1]] is out of range: the call panics
                     /\ frames' = [frames EXCEPT ![f] = r.fr]
                     /\ fPool' = PoolAfterGet(f)
                     /\ ret' = [base EXCEPT !.err = "panic", !.seq = opts[1]]
                     /\ pc' = "crashed"
                     /\ UNCHANGED << cframe, codec, rcvd >>
                ELSE /\ rcvd[opts[1]] = {}
                     /\ frames' = Collect([frames EXCEPT ![f] = r.fr], PoolAfterGet(f), f)
                     /\ fPool' = PoolAfterGet(f)
                     /\ cframe' = f
                     /\ codec' = Store(codec, opts[1], storeCodec(ReadFlags(r.fr)))
                     /\ rcvd' = [q \in Seqs |-> IF q = opts[1]
                                                THEN {ReadFlags(r.fr)}
                                                ELSE rcvd[q]]
                     /\ ret' = [base EXCEPT !.seq = opts[1],
                                            !.method = SliceTo(r.fr.payload, opts[2])]
                     /\ pc' = "body"

\* line 305..385: the case the body switch takes for a flag byte, 0 for the default
DecoderOf(flags) ==
    IF HasBit(flags, CodecProto) THEN CodecProto
    ELSE IF HasBit(flags, CodecJSON) THEN CodecJSON
    ELSE IF HasBit(flags, CodecGob) THEN CodecGob
    ELSE IF HasBit(flags, CodecRaw) THEN CodecRaw
    ELSE IF HasBit(flags, CodecMsgpack) THEN CodecMsgpack
    ELSE 0

\* the body switch of ReadRequestBody on the retained frame fr, for a non-nil out
DecodeBody(fr, out) ==
    LET flags   == ReadFlags(fr)
        opts    == ReadOptions(fr.header)
        payload == SubSeq(fr.payload, opts[2] + 1, Len(fr.payload))
        Done(e, v) == [err |-> e, val |-> v, dec |-> DecoderOf(flags)]
        Of(d) == IF d.err THEN Done("E:decode", << >>) ELSE Done("nil", << d.val >>)
    IN  IF DecoderOf(flags) = 0
        THEN Done("E:unknown decoder", << >>)
        ELSE IF ~TwoOptions(opts) THEN Done("InvalidFrame", << >>)
        ELSE IF opts[2] > Len(fr.payload) THEN Done("panic", << >>)
        ELSE IF Len(payload) = 0 THEN Done("nil", << >>)
        ELSE IF HasBit(flags, CodecProto)
        THEN IF out = "proto" THEN Of(ProtoUnmarshal(payload)) ELSE Done("E:not a proto", << >>)
        ELSE IF HasBit(flags, CodecJSON) THEN Of(JSONUnmarshal(payload, out))
        ELSE IF HasBit(flags, CodecGob) THEN Of(GobDecode(payload, out))
        ELSE IF HasBit(flags, CodecRaw)
        THEN IF out = "bytesptr" THEN Done("nil", payload) ELSE Done("nil", << >>)
        ELSE Of(MsgpackUnmarshal(payload, out))

\* Codec.ReadRequestBody
ReadRequestBody(out) ==
    /\ pc = "body" /\ ret = NoRet
    /\ out \in OutTypes
    /\ IF out = "nil"
       THEN /\ ret' = [NoRet EXCEPT !.op = "body", !.fid = cframe]
            /\ pc' = "header"
            /\ UNCHANGED << frames, fPool >>
       ELSE LET d == DecodeBody(frames[cframe], out)
            IN  /\ ret' = [NoRet EXCEPT !.op = "body", !.fid = cframe, !.out = out,
                                        !.err = d.err, !.val = d.val, !.dec = d.dec,
                                        !.rfr = frames[cframe]]
                /\ pc' = IF d.err = "panic" THEN "crashed" ELSE "header"
                /\ frames' = FramesAfterPut(frames, cframe)
                /\ fPool' = PoolAfterPut(fPool, cframe)
    /\ UNCHANGED << stream, peerClosed, deadliner, nAlloc, cframe, codec, rcvd, stepVars >>

\* what WriteResponse came to: the error returned, its message, the frames handed
\* to relay.Send (each with whether the send succeeded), and how marshalling went
Written(err, msg, sends, marshal) == [err |-> err, msg |-> msg, sends |-> sends, marshal |-> marshal]

\* the CRC written before the payload length
SendFrameCRCFirst(header, payload, sendOk) ==
    << [header |-> WritePayloadLen(WriteCRC(header), Len(payload)),
        payload |-> payload, ok |-> sendOk] >>

\* WritePayloadLen, WritePayload, WriteCRC, relay.Send
SendFrame(header, payload, sendOk) ==
    << [header |-> WriteCRC(WritePayloadLen(header, Len(payload))),
        payload |-> payload, ok |-> sendOk] >>

\* handleError returning the result of relay.Send
handleErrorReturnsSend(rError, method, header, err, sendOk, marshal) ==
    Written(IF sendOk THEN "nil" ELSE "IO", << >>,
            SendFrame(WriteFlags(header, ERROR), method \o err, sendOk), marshal)

\* Codec.handleError: the error frame is sent, the send's result dropped, and
\* an error made of r.Error returned
handleError(rError, method, header, err, sendOk, marshal) ==
    Written("E:handle codec error", rError,
            SendFrame(WriteFlags(header, ERROR), method \o err, sendOk), marshal)

\* line 118, 147, 169, 190, 210: return c.relay.Send(fr)
SendResponse(header, payload, sendOk) ==
    Written(IF sendOk THEN "nil" ELSE "IO", << >>, SendFrame(header, payload, sendOk), "ok")

\* line 97..213: the switch on the codec byte
WriteBody(c, rError, method, header, body, sendOk) ==
    IF HasBit(c, CodecProto)
    THEN IF ~IsProtoMessage(body) THEN Written("panic", << >>, << >>, "panic")
         ELSE LET d == ProtoMarshal(body)
              IN  IF d.err THEN handleError(rError, method, header, MarshalErrStr, sendOk, "fail")
                  ELSE SendResponse(header, method \o d.data, sendOk)
    ELSE IF HasBit(c, CodecRaw)
    THEN IF body.type \in {"bytes", "bytesptr"}
         THEN SendResponse(header, method \o body.val, sendOk)
         ELSE handleError(rError, method, header, UnknownRawStr, sendOk, "fail")
    ELSE IF HasBit(c, CodecJSON)
    THEN LET d == JSONMarshal(body)
         IN  IF d.err THEN handleError(rError, method, header, MarshalErrStr, sendOk, "fail")
             ELSE SendResponse(header, method \o d.data, sendOk)
    ELSE IF HasBit(c, CodecMsgpack)
    THEN LET d == MsgpackMarshal(body)
         IN  IF d.err THEN Written("E:goridge_write_response", MarshalErrStr, << >>, "fail")
             ELSE SendResponse(header, method \o d.data, sendOk)
    ELSE IF HasBit(c, CodecGob)
    THEN LET d == GobEncode(body)
         IN  IF d.err THEN Written("E:goridge_write_response", MarshalErrStr, << >>, "fail")
             ELSE SendResponse(header, method \o d.data, sendOk)
    ELSE handleError(rError, method, header, UnknownCodecStr, sendOk, "none")

\* line 76..95: options, version, the codec of the request, the error response
WriteFrame(fr, table, seq, method, rError, body, sendOk) ==
    LET h1 == WriteVersion(WriteOptions(fr.header, << seq, Len(method) >>), Version1)
        ok == seq \in DOMAIN table
        h2 == WriteFlags(h1, IF ok THEN table[seq] ELSE CodecGob)
    IN  IF rError # << >> THEN handleError(rError, method, h2, rError, sendOk, "none")
        ELSE IF ~ok
        THEN \* codec.(byte) on the nil interface LoadAndDelete returned: the call panics
             Written("panic", << >>, << >>, "none")
        ELSE WriteBody(table[seq], rError, method, h2, body, sendOk)

\* Codec.WriteResponse
WriteResponse(seq, method, rError, body, sendOk) ==
    /\ pc # "crashed" /\ ret = NoRet
    /\ seq \in Seqs /\ method \in Methods /\ rError \in ErrorStrings /\ body \in Bodies
    /\ \E f \in GetFrameIds :
         LET w == WriteFrame(frames[f], codec, seq, method, rError, body, sendOk)
         IN  /\ ret' = [NoRet EXCEPT !.op = "write", !.fid = f, !.seq = seq, !.method = method,
                                     !.errIn = rError, !.err = w.err, !.msg = w.msg,
                                     !.sends = w.sends, !.marshal = w.marshal,
                                     !.found = IF seq \in DOMAIN codec THEN codec[seq] ELSE 0,
                                     !.reqFlags = rcvd[seq]]
             /\ pc' = IF w.err = "panic" THEN "crashed" ELSE pc
             /\ nAlloc' = AllocAfterGet(f)
             /\ frames' = FramesAfterPut(frames, f)
             /\ fPool' = PoolAfterPut(PoolAfterGet(f), f)
    /\ codec' = Delete(codec, seq)
    /\ rcvd' = [rcvd EXCEPT ![seq] = {}]
    /\ UNCHANGED << stream, peerClosed, deadliner, cframe, stepVars >>

\* the dispatcher takes the result of the call that returned
Return ==
    /\ ret # NoRet /\ pc # "crashed"
    /\ ret' = NoRet
    /\ UNCHANGED << stream, peerClosed, deadliner, frames, nAlloc, fPool, cframe, codec, pc, rcvd,
                    stepVars >>

Next ==
    \/ \E item \in Items \cup { << >> }, io \in IOOutcomes, spare \in BOOLEAN :
         ReadRequestHeader(item, io, spare)
    \/ \E out \in OutTypes : ReadRequestBody(out)
    \/ \E seq \in Seqs, method \in Methods, rError \in ErrorStrings, body \in Bodies,
          sendOk \in BOOLEAN :
         WriteResponse(seq, method, rError, body, sendOk)
    \/ Return

Spec == Init /\ [][Next]_vars

(* ----------------------- the calls, step by step ---------------------- *)
(* The dispatcher may run WriteResponse calls concurrently with each other *)
(* and with the read pair, and may call Close at any time.  Here a call is *)
(* taken apart at its pool and relay operations; what the frames hold is   *)
(* left aside.                                                             *)

\* NewCodec (hasNew) or NewCodecWithRelay (no New function in either pool)
InitSteps ==
    /\ stream = << >>
    /\ peerClosed = FALSE
    /\ deadliner \in BOOLEAN
    /\ frames = [i \in FrameIds |-> NewFrame]
    /\ nAlloc = 0
    /\ fPool = [i \in FrameIds |-> 0]
    /\ cframe = 0
    /\ codec = << >>
    /\ pc = "header"
    /\ ret = NoRet
    /\ rcvd = [q \in Seqs |-> {}]
    /\ hasNew \in BOOLEAN
    /\ closed = FALSE
    /\ closeRets = << >>
    /\ relayCloses = 0
    /\ wpc = [t \in Writers |-> "idle"]
    /\ wfr = [t \in Writers |-> 0]
    /\ rdpc = "idle"
    /\ rdfr = 0

\* c.fPool.Get() returns nil (no pooled frame, no New) and .(*frame.Frame) panics
GetPanics == ~hasNew /\ \A i \in FrameIds : fPool[i] = 0

\* a panic ends the process
Running == rdpc # "panic" /\ \A t \in Writers : wpc[t] # "panic"

\* WriteResponse, line 73: fr := c.getFrame()
WriteGetFrame(t) ==
    /\ Running /\ wpc[t] = "idle"
    /\ IF GetPanics
       THEN /\ wpc' = [wpc EXCEPT ![t] = "panic"]
            /\ UNCHANGED << wfr, fPool, nAlloc >>
       ELSE \E f \in GetFrameIds :
              /\ wpc' = [wpc EXCEPT ![t] = "got"]
              /\ wfr' = [wfr EXCEPT ![t] = f]
              /\ fPool' = PoolAfterGet(f)
              /\ nAlloc' = AllocAfterGet(f)
    /\ UNCHANGED << stream, peerClosed, deadliner, frames, cframe, codec, pc, ret, rcvd,
                    hasNew, closed, closeRets, relayCloses, rdpc, rdfr >>

\* WriteResponse and handleError: c.relay.Send(fr) is entered
WriteSend(t) ==
    /\ Running /\ wpc[t] = "got"
    /\ wpc' = [wpc EXCEPT ![t] = "sending"]
    /\ UNCHANGED << stream, peerClosed, deadliner, frames, nAlloc, fPool, cframe, codec, pc, ret,
                    rcvd, hasNew, closed, closeRets, relayCloses, wfr, rdpc, rdfr >>

\* the deferred c.putFrame(fr) of WriteResponse
WritePutFrame(t) ==
    /\ wpc' = [wpc EXCEPT ![t] = "idle"]
    /\ wfr' = [wfr EXCEPT ![t] = 0]
    /\ fPool' = PoolAfterPut(fPool, wfr[t])
    /\ UNCHANGED << stream, peerClosed, deadliner, frames, nAlloc, cframe, codec, pc, ret, rcvd,
                    hasNew, closed, closeRets, relayCloses, rdpc, rdfr >>

\* c.relay.Send(fr) returned, and WriteResponse returns
WriteSent(t) == Running /\ wpc[t] = "sending" /\ WritePutFrame(t)

\* line 175, 203: WriteResponse returns without a send
WriteReturn(t) == Running /\ wpc[t] = "got" /\ WritePutFrame(t)

\* ReadRequestHeader, line 247: f := c.getFrame()
HeaderGetFrame ==
    /\ Running /\ rdpc = "idle"
    /\ IF GetPanics
       THEN /\ rdpc' = "panic"
            /\ UNCHANGED << rdfr, fPool, nAlloc >>
       ELSE \E f \in GetFrameIds :
              /\ rdpc' = "receive"
              /\ rdfr' = f
              /\ fPool' = PoolAfterGet(f)
              /\ nAlloc' = AllocAfterGet(f)
    /\ UNCHANGED << stream, peerClosed, deadliner, frames, cframe, codec, pc, ret, rcvd,
                    hasNew, closed, closeRets, relayCloses, wpc, wfr >>

\* ReadRequestHeader, line 249..271: the frame is put back when the receive failed or
\* the options are not two, else retained
HeaderReceived(ok) ==
    /\ Running /\ rdpc = "receive"
    /\ rdfr' = 0
    /\ IF ok
       THEN /\ cframe' = rdfr
            /\ rdpc' = "body"
            /\ UNCHANGED fPool
       ELSE /\ fPool' = PoolAfterPut(fPool, rdfr)
            /\ rdpc' = "idle"
            /\ UNCHANGED cframe
    /\ UNCHANGED << stream, peerClosed, deadliner, frames, nAlloc, codec, pc, ret, rcvd,
                    hasNew, closed, closeRets, relayCloses, wpc, wfr >>

\* ReadRequestBody, line 297..301: nothing is deferred yet when out is nil
BodyRead(outNil) ==
    /\ Running /\ rdpc = "body"
    /\ rdpc' = "idle"
    /\ fPool' = IF outNil THEN fPool ELSE PoolAfterPut(fPool, cframe)
    /\ UNCHANGED << stream, peerClosed, deadliner, frames, nAlloc, cframe, codec, pc, ret, rcvd,
                    hasNew, closed, closeRets, relayCloses, wpc, wfr, rdfr >>

\* Close with c.closed set only when relay.Close succeeded
CloseUntilSuccess(relayErr) ==
    /\ Running /\ Len(closeRets) < MaxCloses
    /\ IF closed
       THEN /\ closeRets' = Append(closeRets, "nil")
            /\ UNCHANGED << closed, relayCloses >>
       ELSE /\ closed' = ~relayErr
            /\ relayCloses' = relayCloses + 1
            /\ closeRets' = Append(closeRets, IF relayErr THEN "err" ELSE "nil")
    /\ UNCHANGED << stream, peerClosed, deadliner, frames, nAlloc, fPool, cframe, codec, pc, ret,
                    rcvd, hasNew, wpc, wfr, rdpc, rdfr >>

\* Codec.Close; relayErr: relay.Close returns an error
Close(relayErr) ==
    /\ Running /\ Len(closeRets) < MaxCloses
    /\ IF closed
       THEN /\ closeRets' = Append(closeRets, "nil")
            /\ UNCHANGED << closed, relayCloses >>
       ELSE /\ closed' = TRUE
            /\ relayCloses' = relayCloses + 1
            /\ closeRets' = Append(closeRets, IF relayErr THEN "err" ELSE "nil")
    /\ UNCHANGED << stream, peerClosed, deadliner, frames, nAlloc, fPool, cframe, codec, pc, ret,
                    rcvd, hasNew, wpc, wfr, rdpc, rdfr >>

NextSteps ==
    \/ \E t \in Writers : WriteGetFrame(t)
    \/ \E t \in Writers : WriteSend(t)
    \/ \E t \in Writers : WriteSent(t)
    \/ \E t \in Writers : WriteReturn(t)
    \/ HeaderGetFrame
    \/ \E ok \in BOOLEAN : HeaderReceived(ok)
    \/ \E outNil \in BOOLEAN : BodyRead(outNil)
    \/ \E relayErr \in BOOLEAN : Close(relayErr)

SpecSteps == InitSteps /\ [][NextSteps]_vars

(* ------------------------------- claims -------------------------------- *)

\* the flag byte of a frame handed to relay.Send
SentFlags(e) == e.header[2]

\* the last call was ReadRequestHeader and its relay.Receive read 12 header bytes
HeaderRead(r) == r.op = "header" /\ r.stage # "header"

\* the step is a call of ReadRequestHeader
HeaderStep == ret = NoRet /\ ret'.op = "header"

\* C1: when the header and options were read, the CRC verified, payload_length > 0
\* and the stream ends before payload_length bytes, ReceiveFrame returns an EOF
\* error; it never returns nil with a payload shorter than payload_length.
C1_EofMidPayload ==
    ret.op = "header" =>
        /\ ret.stage = "payload" => ret.rerr \in {"EOF", "ErrUnexpectedEOF", "E:ErrUnexpectedEOF"}
        /\ ret.rerr = "nil" => Len(ret.rfr.payload) = ReadPayloadLen(ret.rfr.header)

\* C2: WriteResponse with an empty r.Error for a seq without an entry in the codec
\* table does not panic and, the body encoded, sends one frame flagged CodecGob with
\* payload method || gob(body).
C2_FallbackGob ==
    (ret.op = "write" /\ ret.errIn = << >> /\ ret.found = 0) =>
        /\ ret.err # "panic"
        /\ ret.marshal # "fail" =>
             /\ Len(ret.sends) = 1
             /\ SentFlags(ret.sends[1]) = CodecGob
             /\ ret.sends[1].payload = ret.method \o << 3, 12, 7 >>

\* C3: the response frame WriteResponse sends for seq (r.Error empty, body marshalled)
\* carries one codec bit, and it is a codec bit of the flag byte received on the
\* request with that seq, whatever was read or answered in between.
C3_CodecMemory ==
    (ret.op = "write" /\ ret.errIn = << >> /\ ret.reqFlags # {}) =>
        /\ ret.marshal = "ok" => Len(ret.sends) = 1 /\ ~HasBit(SentFlags(ret.sends[1]), ERROR)
        /\ \A i \in 1..Len(ret.sends), rf \in ret.reqFlags :
             ~HasBit(SentFlags(ret.sends[i]), ERROR) =>
                 /\ SentFlags(ret.sends[i]) \in CodecBits
                 /\ (\E b \in CodecBits : HasBit(rf, b)) => HasBit(rf, SentFlags(ret.sends[i]))

\* seq 1 (msgpack) is answered while seq 2 (proto), read after it, is unanswered
C3_Witness ==
    /\ ret.op = "write" /\ ret.seq = 1 /\ ret.reqFlags = {CodecMsgpack}
    /\ Len(ret.sends) = 1 /\ SentFlags(ret.sends[1]) = CodecMsgpack
    /\ rcvd[2] = {CodecProto}

\* C4: after WriteResponse for seq, whatever its outcome, the codec table has no
\* entry for seq; once every request read has been answered the table is empty.
C4_EntryRemoved ==
    /\ ret.op = "write" => ret.seq \notin DOMAIN codec
    /\ (\A q \in Seqs : rcvd[q] = {}) => DOMAIN codec = {}

\* a request was read, its response failed to marshal, and the table is empty
C4_Witness ==
    /\ ret.op = "write" /\ ret.found # 0 /\ ret.marshal = "fail"
    /\ DOMAIN codec = {}

\* C5: for every codec, when marshalling the body fails, an ERROR frame for the seq
\* is handed to the relay and a non-nil error is returned.
C5_MarshalErrorSent ==
    (ret.op = "write" /\ ret.marshal = "fail") =>
        /\ ret.err # "nil"
        /\ Len(ret.sends) = 1
        /\ HasBit(SentFlags(ret.sends[1]), ERROR)
        /\ ReadOptions(ret.sends[1].header)[1] = ret.seq

\* C6: WriteResponse with a non-empty r.Error hands exactly one frame to the relay:
\* ERROR flag, options [seq, len(method)], payload method || r.Error; nothing is
\* marshalled; an error carrying r.Error is returned whether the send succeeded or not.
C6_ErrorResponse ==
    (ret.op = "write" /\ ret.errIn # << >>) =>
        /\ Len(ret.sends) = 1
        /\ HasBit(SentFlags(ret.sends[1]), ERROR)
        /\ ReadOptions(ret.sends[1].header) = << ret.seq, Len(ret.method) >>
        /\ ret.sends[1].payload = ret.method \o ret.errIn
        /\ ret.marshal = "none"
        /\ ret.err = "E:handle codec error" /\ ret.msg = ret.errIn

\* the error response whose send failed
C6_Witness ==
    /\ ret.op = "write" /\ ret.errIn # << >>
    /\ Len(ret.sends) = 1 /\ ~ret.sends[1].ok
    /\ ret.err = "E:handle codec error"

\* C7: a request frame without a codec bit is handled as gob throughout:
\* ReadRequestHeader stores CodecGob for its seq and ReadRequestBody decodes the
\* body as gob instead of failing.
C7_DefaultGob ==
    /\ (ret.op = "header" /\ ret.err = "nil" /\ ~(\E b \in CodecBits : HasBit(ReadFlags(ret.rfr), b)))
           => codec[ret.seq] = CodecGob
    /\ (ret.op = "body" /\ ret.out = "value" /\ ~(\E b \in CodecBits : HasBit(ReadFlags(ret.rfr), b)))
           => ret.err = "nil"

\* C8: ReadRequestHeader fails with an invalid-frame error whenever the frame
\* received does not carry exactly two options, and then changes nothing: no entry
\* is stored, c.frame is kept, the frame acquired is back in the pool.
C8_InvalidFrame ==
    [][(HeaderStep /\ ret'.rerr = "nil" /\ Len(ReadOptions(ret'.rfr.header)) # 2) =>
          /\ ret'.err = "InvalidFrame"
          /\ codec' = codec /\ rcvd' = rcvd /\ cframe' = cframe /\ pc' = pc
          /\ fPool'[ret'.fid] = 1 /\ frames'[ret'.fid] = NewFrame]_vars

\* a frame with three options was rejected while a request was unanswered
C8_Witness ==
    /\ ret.op = "header" /\ ret.err = "InvalidFrame"
    /\ Len(ReadOptions(ret.rfr.header)) = 3
    /\ DOMAIN codec # {} /\ fPool[ret.fid] = 1

\* C9 as stated: whenever the CRC stored in the 12 header bytes read does not match
\* bytes 0..7, ReceiveFrame fails with the validation error, no payload is placed
\* in the frame, and ReadRequestHeader returns that error and changes nothing.
C9_Original ==
    [][(HeaderStep /\ HeaderRead(ret') /\ ~VerifyCRC(ret'.rfr.header)) =>
          /\ ret'.rerr = "Validation" /\ ret'.err = ret'.rerr
          /\ ret'.rfr.payload = << >>
          /\ codec' = codec /\ rcvd' = rcvd /\ cframe' = cframe]_vars

\* C9 (amended): the same, for a header that is not the foreign-output sentinel and
\* whose options were read in full; with and without read deadlines.
C9_CrcMismatch ==
    [][(HeaderStep /\ HeaderRead(ret') /\ ret'.stage # "options"
            /\ SubSeq(ret'.rfr.header, 1, 12) # res /\ ~VerifyCRC(ret'.rfr.header)) =>
          /\ ret'.rerr = "Validation" /\ ret'.err = ret'.rerr
          /\ ret'.rfr.payload = << >>
          /\ codec' = codec /\ rcvd' = rcvd /\ cframe' = cframe
          /\ fPool'[ret'.fid] = 1]_vars

\* a CRC mismatch on a stream without deadlines, the payload left unread
C9_Witness ==
    /\ ret.op = "header" /\ ~deadliner /\ ret.err = "Validation"
    /\ ~VerifyCRC(ret.rfr.header) /\ stream # << >>

Sending == { t \in Writers : wpc[t] = "sending" }

\* the WriteResponse calls that hold frame i
Holders(i) == { t \in Writers : wpc[t] \in {"got", "sending"} /\ wfr[t] = i }

\* the read pair holds frame i: it is being received into, or retained for the body
ReaderHolds(i) == (rdpc = "receive" /\ rdfr = i) \/ (rdpc = "body" /\ cframe = i)

\* C11: of the WriteResponse calls running concurrently on one codec, at most one
\* is inside relay.Send at any time.
C11_SendsSerialized == Cardinality(Sending) <= 1

\* C13: over any sequence of Close calls relay.Close is invoked exactly once, by the
\* first call, and every later call returns nil, whatever the first returned.
C13_CloseIdempotent ==
    /\ relayCloses = IF closeRets = << >> THEN 0 ELSE 1
    /\ closeRets # << >> => closed
    /\ \A i \in 2..Len(closeRets) : closeRets[i] = "nil"

\* relay.Close failed in the first call, and Close was called twice more
C13_Witness ==
    /\ Len(closeRets) = 3 /\ closeRets[1] = "err" /\ closeRets[3] = "nil"
    /\ relayCloses = 1

\* C19: under the paired-call discipline no frame is held by two calls at once, a
\* frame held by a call is not in the pool, and no frame is in the pool twice.
C19_NoSharedFrame ==
    \A i \in FrameIds :
        /\ fPool[i] <= 1
        /\ Cardinality(Holders(i)) + (IF ReaderHolds(i) THEN 1 ELSE 0) + fPool[i] <= 1

\* a WriteResponse is inside relay.Send with one frame while the read pair has the
\* other retained for its body
C19_Witness ==
    /\ rdpc = "body" /\ hasNew
    /\ \E t \in Writers : wpc[t] = "sending" /\ wfr[t] # cframe /\ wfr[t] # 0
    /\ nAlloc = 2 /\ \A i \in FrameIds : fPool[i] = 0

\* C20: a codec made by NewCodecWithRelay behaves as one made by NewCodec; in
\* particular no getFrame of either yields nil, so that no call panics there.
C20_GetNeverNil == rdpc # "panic" /\ \A t \in Writers : wpc[t] # "panic"

\* C12: every frame WriteResponse or handleError hands to relay.Send has version 1,
\* the two options [seq, len(method)], a payload length equal to the length of its
\* payload, a payload that starts with the method name, and a CRC that matches
\* header bytes 0..7.
C12_SentWellFormed ==
    ret.op = "write" =>
        \A i \in 1..Len(ret.sends) :
            LET e == ret.sends[i]
            IN  /\ e.header[1] % 16 = Version1
                /\ ReadOptions(e.header) = << ret.seq, Len(ret.method) >>
                /\ ReadPayloadLen(e.header) = Len(e.payload)
                /\ Take(e.payload, Len(ret.method)) = ret.method
                /\ VerifyCRC(e.header)

\* a JSON response with a body, written with a frame the read pair had put back
C12_Witness ==
    /\ ret.op = "write" /\ Len(ret.sends) = 1 /\ ret.fid = cframe
    /\ SentFlags(ret.sends[1]) = CodecJSON
    /\ Len(ret.sends[1].payload) > Len(ret.method)

\* the options of the frame the last ReadRequestHeader or ReadRequestBody worked on
LastOptions == ReadOptions(ret.rfr.header)

\* C14: every successful ReadRequestHeader delivers the next frame of the stream and
\* nothing else: the bytes read begin with a complete frame with a valid CRC, the call
\* returns that frame's sequence id and method name, and it leaves the bytes after it
\* unread; so the calls deliver the well-formed frames in order, none lost or twice.
C14_DeliveredInOrder ==
    (ret.op = "header" /\ ret.err = "nil") =>
        /\ ret.rfr.header \o ret.rfr.payload \o stream = ret.rin
        /\ VerifyCRC(ret.rfr.header)
        /\ Len(ret.rfr.payload) = ReadPayloadLen(ret.rfr.header)
        /\ ret.seq = LastOptions[1]
        /\ ret.method = Take(ret.rfr.payload, LastOptions[2])
        /\ Len(ret.method) = LastOptions[2]

\* C15: the frame ReadRequestHeader got is in the pool once after every failing
\* return of ReadRequestHeader and after every return of ReadRequestBody, the one
\* for a nil out and those with a decoding error among them.
C15_FramePutBack ==
    /\ (ret.op = "header" /\ ret.err \notin {"nil", "panic"}) => fPool[ret.fid] = 1
    /\ (ret.op = "body" /\ ret.err # "panic") => fPool[ret.fid] = 1

\* C16: after a marshalling failure that was sent to the peer, the error WriteResponse
\* returns carries the text that is in the ERROR frame after the method name, and
\* that text is not empty.
C16_ErrorText ==
    (ret.op = "write" /\ ret.marshal = "fail" /\ Len(ret.sends) = 1) =>
        /\ ret.msg # << >>
        /\ ret.sends[1].payload = ret.method \o ret.msg

\* C17: for every flag byte of a request, the codec ReadRequestBody decodes the body
\* with is the codec ReadRequestHeader stored for the seq, and the codec WriteResponse
\* encodes the response with is that stored codec.
C17_SameCodec ==
    /\ (ret.op = "body" /\ ret.out # "nil" /\ Len(LastOptions) = 2
            /\ LastOptions[1] \in DOMAIN codec)
           => ret.dec = codec[LastOptions[1]]
    /\ (ret.op = "write" /\ ret.found # 0 /\ ret.marshal = "ok")
           => SentFlags(ret.sends[1]) = ret.found

\* C18: for a frame with two options whose method-name length exceeds the length of
\* its payload, ReadRequestHeader returns an error: it neither panics nor succeeds,
\* and ReadRequestBody does not panic.
C18_MethodLenChecked ==
    /\ (ret.op = "header" /\ ret.rerr = "nil" /\ Len(LastOptions) = 2
            /\ LastOptions[2] > Len(ret.rfr.payload))
           => ret.err \notin {"nil", "panic"}
    /\ ret.op = "body" => ret.err # "panic"

====
